---- MODULE Spec2Model ----
(***************************************************************************)
(* Model of the railmap cost/time simulator (components/CostTimeSimulator) *)
(* as it is mounted by the Explorer page.                                  *)
(*                                                                         *)
(* Number representation.  The code computes in JavaScript numbers; the    *)
(* model computes exactly, in fixed point:                                 *)
(*   - amount is a whole number of dollars (the range input has the        *)
(*     default step 1);                                                    *)
(*   - percent is in thousandths (29 is the fraction 0.029);               *)
(*   - fixed, flat, cap, flatDomestic, flatInternational and every fee     *)
(*     are in mills, thousandths of a dollar (300 is 0.30);                *)
(*   - internationalMultiplier is in quarters (5 is 1.25, 4 is 1.0);       *)
(*     the wire "flat" values enumerated below are multiples of 4 mills    *)
(*     so that flat * multiplier is exact.                                 *)
(* An optional field is a set: {} when the field is omitted (undefined),   *)
(* {v} when it is given with value v.                                      *)
(* A display value (number | string) is a record tagged with its kind.     *)
(***************************************************************************)
EXTENDS Integers, Sequences, FiniteSets, TLC

\* ------------------------------------------------------------------ bounds
\* how many amounts above the slider minimum are sampled, besides 50, 100, 5000
AmountSamples == 1
\* how many volumes from the slider minimum upwards are sampled, besides 200, 2000
VolumeSamples == 1

\* ------------------------------------------------------- program constants
InitAmount == 50
InitVolume == 200
MinAmount == 5
MaxAmount == 5000
MinVolume == 1
MaxVolume == 2000

\* --------------------------------------------------------- value helpers
None == {}

Some(v) == {v}

Get(o) == CHOOSE v \in o : TRUE

Num(n) == [kind |-> "number", n |-> n, s |-> ""]

Str(s) == [kind |-> "string", n |-> 0, s |-> s]

Max(a, b) == IF a >= b THEN a ELSE b

Min(a, b) == IF a <= b THEN a ELSE b

\* JavaScript truthiness of an optional number: undefined and 0 are falsy
NumTruthy(o) == o # {} /\ o # {0}

\* JavaScript truthiness of an optional number | string: undefined, 0 and ""
\* are falsy
DisplayTruthy(o) ==
  /\ o # {}
  /\ LET v == Get(o) IN IF v.kind = "number" THEN v.n # 0 ELSE v.s # ""

\* JavaScript `x || 0` on an optional number
OrOne(o) == IF NumTruthy(o) THEN Get(o) ELSE 1

OrZero(o) == IF NumTruthy(o) THEN Get(o) ELSE 0

\* ------------------------------------------------------------ input space
KnownTypes ==
  {"percent_plus_fixed", "percent_plus_fixed_with_cap", "flat",
   "flat_with_international", "wire", "free"}

\* a type outside the union, as static data can carry at run time
UnknownType == "tiered"

FM(t, percent, fixed, flat, cap, fd, fi, m) ==
  [type |-> t, percent |-> percent, fixed |-> fixed, flat |-> flat,
   cap |-> cap, flatDomestic |-> fd, flatInternational |-> fi,
   internationalMultiplier |-> m]

FeeModels ==
  {FM("percent_plus_fixed", p, f, None, None, None, None, None) :
      p \in {None, {0}, {19}, {29}}, f \in {None, {300}, {-200000}}}
  \cup
  {FM("percent_plus_fixed_with_cap", p, f, None, c, None, None, None) :
      p \in {None, {29}}, f \in {None, {300}, {-200000}},
      c \in {None, {0}, {1800}, {-500}}}
  \cup
  {FM("flat", None, None, fl, None, None, None, None) :
      fl \in {None, {0}, {120}, {-4000}}}
  \cup
  {FM("flat_with_international", None, None, None, None, fd, fi, None) :
      fd \in {None, {30000}, {-1000}}, fi \in {None, {50000}, {-1000}}}
  \cup
  {FM("wire", None, None, fl, None, None, None, m) :
      fl \in {None, {30000}, {-4000}},
      m \in {None, {0}, {2}, {4}, {5}, {-4}}}
  \cup
  {FM(t, None, None, None, None, None, None, None) :
      t \in {"free", UnknownType}}
  \cup
  {FM(t, {29}, {300}, {120}, {1800}, {30000}, {50000}, {5}) :
      t \in {"free", UnknownType}}

Settlements ==
  [domesticDays : {Num(1), Str("1-2 business days")},
   internationalDays :
     {None, {Num(0)}, {Str("")}, {Num(3)}, {Str("3-5 business days")}},
   settlementTimingLabel : {None, {Str("")}, {Str("Typically T+1")}}]

TransactionTypes == {None, {"Domestic"}, {"International"}}

\* one fee model per role the type plays in the international flag
SettlementProbeFeeModels ==
  {FM("flat", None, None, {120}, None, None, None, None),
   FM("flat_with_international", None, None, None, None, {30000}, {50000}, None),
   FM(UnknownType, None, None, None, None, None, None, None)}

\* one settlement per outcome of the international flag
FeeProbeContexts ==
  {[transactionType |-> {"Domestic"},
    settlement |-> [domesticDays |-> Num(1), internationalDays |-> None,
                    settlementTimingLabel |-> None]],
   [transactionType |-> {"International"},
    settlement |-> [domesticDays |-> Num(1), internationalDays |-> None,
                    settlementTimingLabel |-> None]],
   [transactionType |-> None,
    settlement |-> [domesticDays |-> Str("1-2 business days"),
                    internationalDays |-> {Num(3)},
                    settlementTimingLabel |-> {Str("Typically T+1")}]]}

Scenarios ==
  {[transactionType |-> tt, economics |-> None] : tt \in TransactionTypes}
  \cup
  {[transactionType |-> tt,
    economics |-> Some([feeModel |-> fm, settlement |-> st])] :
      tt \in TransactionTypes, fm \in SettlementProbeFeeModels,
      st \in Settlements}
  \cup
  {[transactionType |-> c.transactionType,
    economics |-> Some([feeModel |-> fm, settlement |-> c.settlement])] :
      c \in FeeProbeContexts, fm \in FeeModels}

\* a slider whose min attribute is 0
AmountsFromZero == {0, InitAmount, 100, MaxAmount}

Amounts ==
  {MinAmount + k : k \in 0..AmountSamples} \cup {InitAmount, 100, MaxAmount}

Volumes ==
  {MinVolume + k : k \in 0..(VolumeSamples - 1)} \cup {InitVolume, MaxVolume}

\* ------------------------------------------------------- the derivations
IsInternationalNoType(scn) ==
  LET economics == Get(scn.economics) IN
  \/ DisplayTruthy(economics.settlement.internationalDays)
  \/ scn.transactionType = {"International"}

IsInternational(scn) ==
  LET economics == Get(scn.economics) IN
  \/ DisplayTruthy(economics.settlement.internationalDays)
  \/ scn.transactionType = {"International"}
  \/ economics.feeModel.type = "flat_with_international"

\* percent read as a percentage instead of a fraction
PercentPlusFixedAsPercentage(amt, feeModel) ==
  (amt * OrZero(feeModel.percent)) \div 100 + OrZero(feeModel.fixed)

PercentPlusFixed(amt, feeModel) ==
  amt * OrZero(feeModel.percent) + OrZero(feeModel.fixed)

PercentPlusFixedWithCapMax(amt, feeModel) ==
  LET calculatedFee == amt * OrZero(feeModel.percent) + OrZero(feeModel.fixed)
  IN IF feeModel.cap # None THEN Max(calculatedFee, Get(feeModel.cap))
     ELSE calculatedFee

PercentPlusFixedWithCap(amt, feeModel) ==
  LET calculatedFee == amt * OrZero(feeModel.percent) + OrZero(feeModel.fixed)
  IN IF feeModel.cap # None THEN Min(calculatedFee, Get(feeModel.cap))
     ELSE calculatedFee

FlatWithInternational(feeModel, intl) ==
  IF intl THEN OrZero(feeModel.flatInternational)
  ELSE OrZero(feeModel.flatDomestic)

Wire(feeModel, intl) ==
  LET fee == OrZero(feeModel.flat) IN
  IF intl /\ NumTruthy(feeModel.internationalMultiplier)
  THEN (fee * Get(feeModel.internationalMultiplier)) \div 4
  ELSE fee

\* the if / else-if chain of the memo body, before the final clamp
RawFeeFreeChargesFlat(amt, feeModel, intl) ==
  IF feeModel.type = "percent_plus_fixed" THEN PercentPlusFixed(amt, feeModel)
  ELSE IF feeModel.type = "percent_plus_fixed_with_cap"
       THEN PercentPlusFixedWithCap(amt, feeModel)
  ELSE IF feeModel.type = "flat" THEN OrZero(feeModel.flat)
  ELSE IF feeModel.type = "flat_with_international"
       THEN FlatWithInternational(feeModel, intl)
  ELSE IF feeModel.type = "wire" THEN Wire(feeModel, intl)
  ELSE IF feeModel.type = "free" THEN OrZero(feeModel.flat)
  ELSE 0

RawFeeElseIsPercent(amt, feeModel, intl) ==
  IF feeModel.type = "percent_plus_fixed_with_cap"
       THEN PercentPlusFixedWithCap(amt, feeModel)
  ELSE IF feeModel.type = "flat" THEN OrZero(feeModel.flat)
  ELSE IF feeModel.type = "flat_with_international"
       THEN FlatWithInternational(feeModel, intl)
  ELSE IF feeModel.type = "wire" THEN Wire(feeModel, intl)
  ELSE IF feeModel.type = "free" THEN 0
  ELSE PercentPlusFixed(amt, feeModel)

RawFeeFlatPerDollar(amt, feeModel, intl) ==
  IF feeModel.type = "percent_plus_fixed" THEN PercentPlusFixed(amt, feeModel)
  ELSE IF feeModel.type = "percent_plus_fixed_with_cap"
       THEN PercentPlusFixedWithCap(amt, feeModel)
  ELSE IF feeModel.type = "flat" THEN amt * OrZero(feeModel.flat)
  ELSE IF feeModel.type = "flat_with_international"
       THEN FlatWithInternational(feeModel, intl)
  ELSE IF feeModel.type = "wire" THEN Wire(feeModel, intl)
  ELSE IF feeModel.type = "free" THEN 0
  ELSE 0

RawFee(amt, feeModel, intl) ==
  IF feeModel.type = "percent_plus_fixed" THEN PercentPlusFixed(amt, feeModel)
  ELSE IF feeModel.type = "percent_plus_fixed_with_cap"
       THEN PercentPlusFixedWithCap(amt, feeModel)
  ELSE IF feeModel.type = "flat" THEN OrZero(feeModel.flat)
  ELSE IF feeModel.type = "flat_with_international"
       THEN FlatWithInternational(feeModel, intl)
  ELSE IF feeModel.type = "wire" THEN Wire(feeModel, intl)
  ELSE IF feeModel.type = "free" THEN 0
  ELSE 0

ComputeFeeUnclamped(amt, feeModel, intl) == RawFee(amt, feeModel, intl)

\* the value the feePerTransaction memo computes
ComputeFee(amt, feeModel, intl) == Max(0, RawFee(amt, feeModel, intl))

\* the day counts tested before the label
ComputeSettlementTimeDaysFirst(settlement, intl) ==
  IF intl /\ DisplayTruthy(settlement.internationalDays)
  THEN Get(settlement.internationalDays)
  ELSE IF DisplayTruthy(settlement.settlementTimingLabel)
       THEN Get(settlement.settlementTimingLabel)
  ELSE settlement.domesticDays

\* the international branch left out
ComputeSettlementTimeDomesticOnly(settlement, intl) ==
  IF DisplayTruthy(settlement.settlementTimingLabel)
  THEN Get(settlement.settlementTimingLabel)
  ELSE settlement.domesticDays

\* the value the settlementTime memo computes
ComputeSettlementTime(settlement, intl) ==
  IF DisplayTruthy(settlement.settlementTimingLabel)
  THEN Get(settlement.settlementTimingLabel)
  ELSE IF intl /\ DisplayTruthy(settlement.internationalDays)
       THEN Get(settlement.internationalDays)
  ELSE settlement.domesticDays

\* ------------------------------------------------------------- the hooks
\* dependency arrays of the three useMemo calls
FeeDepsNoFlag(amt, feeModel, intl) == <<amt, feeModel>>

FeeDepsNoAmount(amt, feeModel, intl) == <<feeModel, intl>>

FeeDeps(amt, feeModel, intl) == <<amt, feeModel, intl>>

MonthlyDepsFeeOnly(fee, vol) == <<fee>>

MonthlyDeps(fee, vol) == <<fee, vol>>

SettlementDepsFlagOnly(intl, settlement) == <<intl>>

SettlementDeps(intl, settlement) == <<intl, settlement>>

\* a memo cell before the first render
EmptyMemo == [deps |-> <<>>, value |-> 0]

\* useMemo: keep the cell when the dependencies are unchanged, else recompute.
\* Scenario records are immutable static data, so comparing a feeModel or
\* settlement by value agrees with comparing it by reference whenever the
\* references are equal, and unequal references only force a recomputation.
UseMemo(cell, deps, value) ==
  IF cell.deps = deps THEN cell ELSE [deps |-> deps, value |-> value]

VARIABLES
  scenario,        \* the scenario prop the Explorer passes
  mounted,         \* whether the Explorer renders the simulator
  amount,          \* useState(50)
  monthlyVolume,   \* useState(200)
  isInternational, \* the flag derived in the last render (shown as the badge)
  feeMemo,         \* useMemo cell of feePerTransaction
  monthlyMemo,     \* useMemo cell of monthlyFees
  settlementMemo,  \* useMemo cell of settlementTime
  prevIsInternational \* the flag derived in the render before the last one

simVars ==
  <<scenario, mounted, amount, monthlyVolume, isInternational,
    feeMemo, monthlyMemo, settlementMemo, prevIsInternational>>

\* state of the Explorer page (modelled further below)
VARIABLES
  scenarios,        \* the scenario list of data/scenarios
  compareMode,      \* useState(initialState.compareMode)
  selectedScenario, \* useState(initialState.selected)
  scenarioA,        \* useState(initialState.a)
  scenarioB,        \* useState(initialState.b)
  shown,            \* the CostTimeSimulator elements of the last render
  lastOp,           \* the last user operation and the slots it found
  isInitialized,    \* useState(false)
  url,              \* the query string of the current location
  lastReplace       \* the query router.replace got in the last step, if any

explorerVars ==
  <<scenarios, compareMode, selectedScenario, scenarioA, scenarioB,
    shown, lastOp, isInitialized, url, lastReplace>>

vars == <<simVars, explorerVars>>

feePerTransaction == feeMemo.value

monthlyFees == monthlyMemo.value

settlementTime == settlementMemo.value

\* one render of the component body with the given props, state and cells
Render(scn, amt, vol, fCell, mCell, sCell) ==
  LET economics == Get(scn.economics)
      intl == IsInternational(scn)
      f == UseMemo(fCell, FeeDeps(amt, economics.feeModel, intl),
                   ComputeFee(amt, economics.feeModel, intl))
      m == UseMemo(mCell, MonthlyDeps(f.value, vol), f.value * vol)
      s == UseMemo(sCell, SettlementDeps(intl, economics.settlement),
                   ComputeSettlementTime(economics.settlement, intl))
  IN /\ isInternational' = intl
     /\ prevIsInternational' = isInternational
     /\ feeMemo' = f
     /\ monthlyMemo' = m
     /\ settlementMemo' = s

\* nothing is rendered: the component state and its memo cells are dropped
NotRendered ==
  /\ mounted' = FALSE
  /\ amount' = InitAmount
  /\ monthlyVolume' = InitVolume
  /\ isInternational' = FALSE
  /\ prevIsInternational' = isInternational
  /\ feeMemo' = EmptyMemo
  /\ monthlyMemo' = EmptyMemo
  /\ settlementMemo' = EmptyMemo

\* the Explorer variables while only one simulator is followed
ExplorerIdle ==
  /\ scenarios = <<>>
  /\ compareMode = FALSE
  /\ selectedScenario = [id |-> 0, economics |-> None]
  /\ scenarioA = [id |-> 0, economics |-> None]
  /\ scenarioB = [id |-> 0, economics |-> None]
  /\ shown = {}
  /\ lastOp = [op |-> "load", arg |-> 0, prevA |-> 0, prevB |-> 0]
  /\ isInitialized = FALSE
  /\ url = [compare |-> None, s |-> None, a |-> None, b |-> None]
  /\ lastReplace = None

Init ==
  /\ ExplorerIdle
  /\ scenario \in Scenarios
  /\ mounted = (scenario.economics # None)
  /\ amount = InitAmount
  /\ monthlyVolume = InitVolume
  /\ IF scenario.economics # None
     THEN LET economics == Get(scenario.economics)
              intl == IsInternational(scenario)
              fee == ComputeFee(InitAmount, economics.feeModel, intl)
          IN /\ isInternational = intl
             /\ prevIsInternational = intl
             /\ feeMemo = [deps |-> FeeDeps(InitAmount, economics.feeModel, intl),
                           value |-> fee]
             /\ monthlyMemo = [deps |-> MonthlyDeps(fee, InitVolume),
                               value |-> fee * InitVolume]
             /\ settlementMemo =
                  [deps |-> SettlementDeps(intl, economics.settlement),
                   value |-> ComputeSettlementTime(economics.settlement, intl)]
     ELSE /\ isInternational = FALSE
          /\ prevIsInternational = FALSE
          /\ feeMemo = EmptyMemo
          /\ monthlyMemo = EmptyMemo
          /\ settlementMemo = EmptyMemo

\* the amount slider: onChange -> setAmount, then the re-render
SetAmount(a) ==
  /\ mounted
  /\ amount' = a
  /\ UNCHANGED <<scenario, mounted, monthlyVolume, explorerVars>>
  /\ Render(scenario, a, monthlyVolume, feeMemo, monthlyMemo, settlementMemo)

\* the volume slider: onChange -> setMonthlyVolume, then the re-render
SetMonthlyVolume(v) ==
  /\ mounted
  /\ monthlyVolume' = v
  /\ UNCHANGED <<scenario, mounted, amount, explorerVars>>
  /\ Render(scenario, amount, v, feeMemo, monthlyMemo, settlementMemo)

\* the Explorer passes another scenario with economics to the simulator it
\* already renders: state and memo cells survive
ChangeScenario(scn) ==
  /\ mounted
  /\ scn.economics # None
  /\ scenario' = scn
  /\ UNCHANGED <<mounted, amount, monthlyVolume, explorerVars>>
  /\ Render(scn, amount, monthlyVolume, feeMemo, monthlyMemo, settlementMemo)

\* the Explorer starts rendering the simulator: fresh state, first render
Mount(scn) ==
  /\ ~mounted
  /\ scn.economics # None
  /\ scenario' = scn
  /\ mounted' = TRUE
  /\ amount' = InitAmount
  /\ monthlyVolume' = InitVolume
  /\ UNCHANGED explorerVars
  /\ Render(scn, InitAmount, InitVolume, EmptyMemo, EmptyMemo, EmptyMemo)

\* the Explorer selects a scenario without economics: no simulator
SelectWithoutEconomics(scn) ==
  /\ scn.economics = None
  /\ scenario' = scn
  /\ UNCHANGED explorerVars
  /\ NotRendered

Next ==
  \/ \E a \in Amounts : SetAmount(a)
  \/ \E v \in Volumes : SetMonthlyVolume(v)
  \/ \E scn \in Scenarios : ChangeScenario(scn)
  \/ \E scn \in Scenarios : Mount(scn)
  \/ \E scn \in Scenarios : SelectWithoutEconomics(scn)

Spec == Init /\ [][Next]_vars

\* ============================================================ the Explorer
\* ------------------------------------------------------------------ bounds
\* the longest scenario list explored (data/scenarios is static data)
NumScenarios == 3

\* the economics carried by the scenarios of the Explorer lists that have one
ExplorerEconomics ==
  [feeModel |-> FM("flat", None, None, {120}, None, None, None, None),
   settlement |-> [domesticDays |-> Num(1), internationalDays |-> None,
                   settlementTimingLabel |-> None]]

\* scenario lists of 2..NumScenarios entries with distinct ids (the id of an
\* entry is its position), each entry with or without economics
ScenarioLists ==
  UNION {
    {[i \in 1..n |->
        [id |-> i,
         economics |-> IF i \in E THEN Some(ExplorerEconomics) ELSE None]] :
       E \in SUBSET (1..n)} :
    n \in 2..NumScenarios}

\* values of an id parameter of the query string: absent, the empty string
\* (written 0), the id of a list position, or an id no scenario has
IdParams == {None} \cup {{i} : i \in 0..(NumScenarios + 1)}

\* values of the compare parameter
CompareParams == {None, {"1"}, {"true"}}

Queries == [compare : CompareParams, s : IdParams, a : IdParams, b : IdParams]

\* Array.prototype.find with the predicate  s => s.id === id
FindById(list, id) ==
  LET hits == {i \in 1..Len(list) : list[i].id = id} IN
  IF hits = {} THEN None
  ELSE Some(list[CHOOSE i \in hits : \A j \in hits : i <= j])

\* Array.prototype.find with the predicate  s => s.id !== id
FindOtherThan(list, id) ==
  LET hits == {i \in 1..Len(list) : list[i].id # id} IN
  IF hits = {} THEN None
  ELSE Some(list[CHOOSE i \in hits : \A j \in hits : i <= j])

\* JavaScript `x || y` on an optional scenario
OrElse(o, y) == IF o # None THEN Get(o) ELSE y

findScenarioById(list, id) ==
  IF id = None \/ id = {0} THEN None ELSE FindById(list, Get(id))

\* an initial state that takes slot B as the URL gives it
initialStateKeepsB(list, q) ==
  IF q.compare = {"1"}
  THEN LET a == OrElse(findScenarioById(list, q.a), list[1])
           b == OrElse(findScenarioById(list, q.b), list[2])
       IN [compareMode |-> TRUE, selected |-> a, a |-> a, b |-> b]
  ELSE LET selected == OrElse(findScenarioById(list, q.s), list[1])
       IN [compareMode |-> FALSE, selected |-> selected,
           a |-> list[1], b |-> list[2]]

initialState(list, q) ==
  IF q.compare = {"1"}
  THEN LET a == OrElse(findScenarioById(list, q.a), list[1])
           b == OrElse(findScenarioById(list, q.b), list[2])
           finalB == IF a.id = b.id
                     THEN OrElse(FindOtherThan(list, a.id), list[2])
                     ELSE b
       IN [compareMode |-> TRUE, selected |-> a, a |-> a, b |-> finalB]
  ELSE LET selected == OrElse(findScenarioById(list, q.s), list[1])
       IN [compareMode |-> FALSE, selected |-> selected,
           a |-> list[1], b |-> list[2]]

\* the compare view guarded by the economics of scenario A alone
RenderSimulatorsGuardA(cm, sel, a, b) ==
  IF cm
  THEN IF a.economics # None
       THEN {[slot |-> "A", scenario |-> a], [slot |-> "B", scenario |-> b]}
       ELSE {}
  ELSE IF sel.economics # None
       THEN {[slot |-> "single", scenario |-> sel]}
       ELSE {}

\* the CostTimeSimulator elements the Explorer creates in one render
RenderSimulators(cm, sel, a, b) ==
  IF cm
  THEN IF a.economics # None /\ b.economics # None
       THEN {[slot |-> "A", scenario |-> a], [slot |-> "B", scenario |-> b]}
       ELSE {}
  ELSE IF sel.economics # None
       THEN {[slot |-> "single", scenario |-> sel]}
       ELSE {}

\* the simulators whose body gets past `if (!economics) return null` and so
\* runs the fee derivation
Derived(elements) == {e \in elements : e.scenario.economics # None}

\* an updateURL that writes the selected scenario in compare mode too
updateURLWithSelected(initialized, compare, selected, a, b) ==
  IF ~initialized THEN None
  ELSE Some([compare |-> IF compare THEN {"1"} ELSE None,
             s |-> IF compare THEN {Get(a).id} ELSE {Get(selected).id},
             a |-> IF compare /\ a # None THEN {Get(a).id} ELSE None,
             b |-> IF compare /\ b # None THEN {Get(b).id} ELSE None])

\* updateURL of a render in which isInitialized has the given value: the
\* query handed to router.replace, or None when it returns without replacing.
\* selected, a and b are optional arguments.
updateURL(initialized, compare, selected, a, b) ==
  IF ~initialized THEN None
  ELSE Some([compare |-> IF compare THEN {"1"} ELSE None,
             s |-> IF ~compare /\ selected # None
                   THEN {Get(selected).id} ELSE None,
             a |-> IF compare /\ a # None THEN {Get(a).id} ELSE None,
             b |-> IF compare /\ b # None THEN {Get(b).id} ELSE None])

\* the effect "Sync URL when state changes (after initialization)"
SyncEffect(initialized, cm, sel, a, b) ==
  IF ~initialized THEN None
  ELSE IF cm THEN updateURL(initialized, TRUE, None, Some(a), Some(b))
  ELSE updateURL(initialized, FALSE, Some(sel), None, None)

\* the simulator variables while the Explorer is followed
SimIdle ==
  /\ scenario = [transactionType |-> None, economics |-> None]
  /\ mounted = FALSE
  /\ amount = InitAmount
  /\ monthlyVolume = InitVolume
  /\ isInternational = FALSE
  /\ prevIsInternational = FALSE
  /\ feeMemo = EmptyMemo
  /\ monthlyMemo = EmptyMemo
  /\ settlementMemo = EmptyMemo

\* the id an id parameter asks for, 0 when it asks for none
Asked(id) == IF id = None THEN 0 ELSE Get(id)

InitExplorer ==
  /\ SimIdle
  /\ scenarios \in ScenarioLists
  /\ \E q \in Queries :
       LET i == initialState(scenarios, q) IN
       /\ compareMode = i.compareMode
       /\ selectedScenario = i.selected
       /\ scenarioA = i.a
       /\ scenarioB = i.b
       /\ shown = RenderSimulators(i.compareMode, i.selected, i.a, i.b)
       /\ lastOp = [op |-> "load", arg |-> Asked(q.s),
                    prevA |-> Asked(q.a), prevB |-> Asked(q.b)]
       /\ url = q
  /\ isInitialized = FALSE
  /\ lastReplace = None

\* the effects of the first render and of the render they cause:
\* setIsInitialized(true) runs, the URL effect of the first render returns at
\* once, and in the second render isInitialized and updateURL are new
\* dependencies, so the URL effect runs again and replaces the URL
MountEffects ==
  /\ scenarios # <<>>
  /\ ~isInitialized
  /\ isInitialized' = TRUE
  /\ LET r == SyncEffect(TRUE, compareMode, selectedScenario,
                         scenarioA, scenarioB) IN
     /\ lastReplace' = r
     /\ url' = OrElse(r, url)
  /\ UNCHANGED <<scenarios, compareMode, selectedScenario, scenarioA,
                 scenarioB, shown, lastOp, simVars>>

\* what every handler is followed by: the record of the operation, the
\* re-render of the simulators and, when one of its dependencies changed,
\* the URL effect.  Pending effects are flushed before an event is handled,
\* so a handler finds isInitialized set.
After(op, arg, cm, sel, a, b) ==
  /\ isInitialized
  /\ compareMode' = cm
  /\ selectedScenario' = sel
  /\ scenarioA' = a
  /\ scenarioB' = b
  /\ shown' = RenderSimulators(cm, sel, a, b)
  /\ lastOp' = [op |-> op, arg |-> arg,
                prevA |-> scenarioA.id, prevB |-> scenarioB.id]
  /\ LET r == IF <<cm, sel, a, b>> #
                 <<compareMode, selectedScenario, scenarioA, scenarioB>>
              THEN SyncEffect(isInitialized, cm, sel, a, b)
              ELSE None IN
     /\ lastReplace' = r
     /\ url' = OrElse(r, url)
  /\ UNCHANGED <<scenarios, isInitialized, simVars>>

\* a "Compare Mode" button rendered in both modes
ClickCompareModeToggle ==
  After("compare", 0, ~compareMode, selectedScenario, scenarioA,
        IF scenarioA.id = scenarioB.id
        THEN OrElse(FindOtherThan(scenarios, scenarioA.id), scenarios[2])
        ELSE scenarioB)

\* the "Compare Mode" button, rendered in single mode only
ClickCompareMode ==
  /\ ~compareMode
  /\ After("compare", 0, ~compareMode, selectedScenario, scenarioA,
           IF scenarioA.id = scenarioB.id
           THEN OrElse(FindOtherThan(scenarios, scenarioA.id), scenarios[2])
           ELSE scenarioB)

\* onSelect of the "Scenario A" dropdown.  In the first branch scn is the
\* scenario of slot B, so setScenarioA(scenarioB) and setScenarioB(scenario)
\* store the same scenario in both slots.
DropdownSelectA(scn) ==
  /\ compareMode
  /\ IF scn.id = scenarioB.id
     THEN After("selectA", scn.id, compareMode, selectedScenario,
                scenarioB, scn)
     ELSE After("selectA", scn.id, compareMode, selectedScenario,
                scn, scenarioB)

\* onSelect of the "Scenario B" dropdown.  In the first branch scn is the
\* scenario of slot A, so both slots end up holding it.
DropdownSelectB(scn) ==
  /\ compareMode
  /\ IF scn.id = scenarioA.id
     THEN After("selectB", scn.id, compareMode, selectedScenario,
                scn, scenarioA)
     ELSE After("selectB", scn.id, compareMode, selectedScenario,
                scenarioA, scn)

\* a card click whose first two branches replace one slot only
ClickCardCompareNoSwap(scn) ==
  /\ compareMode
  /\ IF scenarioA.id = scn.id
     THEN After("card", scn.id, compareMode, selectedScenario,
                scenarioB, scenarioB)
     ELSE IF scenarioB.id = scn.id
     THEN After("card", scn.id, compareMode, selectedScenario,
                scenarioA, scenarioA)
     ELSE IF scenarioA.id = scenarioB.id
     THEN After("card", scn.id, compareMode, selectedScenario, scn, scenarioB)
     ELSE After("card", scn.id, compareMode, selectedScenario, scenarioA, scn)

\* a card click that puts a scenario of neither slot in slot A
ClickCardCompareIntoA(scn) ==
  /\ compareMode
  /\ IF scenarioA.id = scn.id
     THEN After("card", scn.id, compareMode, selectedScenario, scenarioB, scn)
     ELSE IF scenarioB.id = scn.id
     THEN After("card", scn.id, compareMode, selectedScenario, scn, scenarioA)
     ELSE After("card", scn.id, compareMode, selectedScenario, scn, scenarioB)

\* onClick of a scenario card in compare mode
ClickCardCompare(scn) ==
  /\ compareMode
  /\ IF scenarioA.id = scn.id
     THEN After("card", scn.id, compareMode, selectedScenario, scenarioB, scn)
     ELSE IF scenarioB.id = scn.id
     THEN After("card", scn.id, compareMode, selectedScenario, scn, scenarioA)
     ELSE IF scenarioA.id = scenarioB.id
     THEN After("card", scn.id, compareMode, selectedScenario, scn, scenarioB)
     ELSE After("card", scn.id, compareMode, selectedScenario, scenarioA, scn)

\* onClick of a scenario card in single mode
ClickCardSingle(scn) ==
  /\ ~compareMode
  /\ After("card", scn.id, compareMode, scn, scenarioA, scenarioB)

Listed == {scenarios[i] : i \in 1..Len(scenarios)}

NextExplorer ==
  \/ MountEffects
  \/ ClickCompareMode
  \/ \E scn \in Listed : DropdownSelectA(scn)
  \/ \E scn \in Listed : DropdownSelectB(scn)
  \/ \E scn \in Listed : ClickCardCompare(scn)
  \/ \E scn \in Listed : ClickCardSingle(scn)

SpecExplorer == InitExplorer /\ [][NextExplorer]_vars

\* ================================================================= claims
fm == (Get(scenario.economics)).feeModel

st == (Get(scenario.economics)).settlement

\* C1: in every state the simulator can reach through slider changes and
\* scenario switches, the fee per transaction shown is >= 0, whatever the
\* fee-model type and whichever optional fields are given, omitted or negative.
C1_FeeNonNegative == mounted => feePerTransaction >= 0

\* the clamp acted: the formula of the variant is negative, after slider moves
C1_Witness ==
  /\ mounted
  /\ amount # InitAmount
  /\ monthlyVolume # InitVolume
  /\ RawFee(amount, fm, isInternational) < 0
  /\ feePerTransaction = 0

\* C2: the international flag is true exactly when internationalDays is
\* truthy (given and neither 0 nor ""), or transactionType is
\* "International", or the fee model's type is flat_with_international.
C2_InternationalFlag ==
  mounted =>
    (isInternational <=>
       \/ st.internationalDays \notin {None, {Num(0)}, {Str("")}}
       \/ "International" \in scenario.transactionType
       \/ fm.type \in {"flat_with_international"})

\* the flag is true by the fee-model type alone, with internationalDays 0
C2_Witness ==
  /\ mounted
  /\ isInternational
  /\ st.internationalDays = {Num(0)}
  /\ scenario.transactionType = {"Domestic"}
  /\ fm.type = "flat_with_international"

\* the flag is false with an empty-string internationalDays
C2_WitnessDomestic ==
  /\ mounted
  /\ ~isInternational
  /\ st.internationalDays = {Str("")}

\* C3 (as claimed): with flatDomestic 30 and flatInternational 50 the fee is
\* 50 when internationalDays is present, and 30 when internationalDays is
\* absent and transactionType is not "International".
C3_FlatDomesticCharged ==
  (/\ mounted
   /\ fm.type = "flat_with_international"
   /\ fm.flatDomestic = {30000}
   /\ fm.flatInternational = {50000})
  => /\ st.internationalDays \notin {None, {Num(0)}, {Str("")}}
          => feePerTransaction = 50000
     /\ (st.internationalDays = None
          /\ scenario.transactionType # {"International"})
          => feePerTransaction = 30000

C5_OmittedCapIsZero ==
  mounted =>
    LET V(o) == IF o = None THEN 0 ELSE Get(o)
        pf == amount * V(fm.percent) + V(fm.fixed)
        pos(x) == IF x > 0 THEN x ELSE 0
    IN /\ fm.type = "percent_plus_fixed" => feePerTransaction = pos(pf)
       /\ fm.type = "percent_plus_fixed_with_cap"
            => feePerTransaction = pos(IF pf < V(fm.cap) THEN pf ELSE V(fm.cap))
       /\ (fm.type = "percent_plus_fixed_with_cap" /\ fm.cap = None)
            => feePerTransaction = 0
       /\ fm.type = "flat" => feePerTransaction = pos(V(fm.flat))
       /\ fm.type = "flat_with_international"
            => feePerTransaction =
                 pos(IF isInternational THEN V(fm.flatInternational)
                     ELSE V(fm.flatDomestic))
       /\ (fm.type = "wire" /\ fm.flat = None) => feePerTransaction = 0

\* C5 (amended): omitted percent, fixed, flat, flatDomestic and
\* flatInternational count as 0 in the formula of the variant; an omitted cap
\* means no cap (the fee is max(0, amount*percent + fixed)); an omitted
\* internationalMultiplier means the wire fee is not multiplied.
C5_OmittedFields ==
  mounted =>
    LET V(o) == IF o = None THEN 0 ELSE Get(o)
        pf == amount * V(fm.percent) + V(fm.fixed)
        pos(x) == IF x > 0 THEN x ELSE 0
    IN /\ fm.type = "percent_plus_fixed" => feePerTransaction = pos(pf)
       /\ (fm.type = "percent_plus_fixed_with_cap" /\ fm.cap # None)
            => feePerTransaction = pos(IF pf < V(fm.cap) THEN pf ELSE V(fm.cap))
       /\ (fm.type = "percent_plus_fixed_with_cap" /\ fm.cap = None)
            => feePerTransaction = pos(pf)
       /\ fm.type = "flat" => feePerTransaction = pos(V(fm.flat))
       /\ fm.type = "flat_with_international"
            => feePerTransaction =
                 pos(IF isInternational THEN V(fm.flatInternational)
                     ELSE V(fm.flatDomestic))
       /\ (fm.type = "wire" /\ fm.flat = None) => feePerTransaction = 0
       /\ (fm.type = "wire" /\ fm.internationalMultiplier = None)
            => feePerTransaction = pos(V(fm.flat))

\* a capped model without cap and without fixed: 100 * 0.029 is charged in full
C5_Witness ==
  /\ mounted
  /\ fm.type = "percent_plus_fixed_with_cap"
  /\ fm.cap = None /\ fm.fixed = None /\ fm.percent = {29}
  /\ amount = 100
  /\ feePerTransaction = 2900

\* C6 (as claimed): the wire fee is max(0, flat * m) for an international
\* transaction and max(0, flat) for a domestic one, m being the given
\* internationalMultiplier (0 and values below 1 included), 1 when omitted.
C6_WireFee ==
  (mounted /\ fm.type = "wire")
  => LET flat == IF fm.flat = None THEN 0 ELSE Get(fm.flat)
         m == IF fm.internationalMultiplier = None THEN 4
              ELSE Get(fm.internationalMultiplier)
         fee == IF isInternational THEN (flat * m) \div 4 ELSE flat
     IN feePerTransaction = (IF fee > 0 THEN fee ELSE 0)

\* C7 (as claimed): a flat model with flat = F has fee F for every amount,
\* every volume and either value of the international flag.
C7_FlatFeeIsF ==
  (mounted /\ fm.type = "flat" /\ fm.flat # None)
  => feePerTransaction = Get(fm.flat)

\* C7 (amended): a flat model with flat = F has fee max(0, F) for every
\* amount, every volume and either value of the international flag.
C7_FlatFeeClamped ==
  (mounted /\ fm.type = "flat" /\ fm.flat # None)
  => feePerTransaction = (IF Get(fm.flat) > 0 THEN Get(fm.flat) ELSE 0)

\* flat 0.12 at the top of the amount slider, international, volume moved
C7_Witness ==
  /\ mounted
  /\ fm.type = "flat" /\ fm.flat = {120}
  /\ amount = MaxAmount
  /\ monthlyVolume = MinVolume
  /\ isInternational
  /\ feePerTransaction = 120

\* C8: a free model has fee 0 and monthly fees 0 for every amount and
\* volume, also when percent, fixed or flat are present on it.
C8_FreeIsZero ==
  (mounted /\ fm.type = "free")
  => feePerTransaction = 0 /\ monthlyFees = 0

\* a free model carrying stray fields, both sliders at their maximum
C8_Witness ==
  /\ mounted
  /\ fm.type = "free"
  /\ fm.percent # None /\ fm.fixed # None /\ fm.flat # None
  /\ amount = MaxAmount
  /\ monthlyVolume = MaxVolume
  /\ monthlyFees = 0

\* C9: a fee model whose type is none of the six variants has fee 0 and
\* monthly fees 0, and the settlement time is the one its settlement
\* configuration selects (label, else internationalDays, else domesticDays).
C9_UnknownTypeIsZero ==
  (mounted /\ fm.type \notin KnownTypes)
  => /\ feePerTransaction = 0
     /\ monthlyFees = 0
     /\ settlementTime =
          (IF st.settlementTimingLabel \notin {None, {Str("")}}
           THEN Get(st.settlementTimingLabel)
           ELSE IF st.internationalDays \notin {None, {Num(0)}, {Str("")}}
                THEN Get(st.internationalDays)
           ELSE st.domesticDays)

\* an unknown type carrying numeric fields, after a slider move
C9_Witness ==
  /\ mounted
  /\ fm.type = UnknownType
  /\ fm.percent = {29} /\ fm.fixed = {300}
  /\ amount = 100
  /\ feePerTransaction = 0
  /\ settlementTime = Str("Typically T+1")

\* C10: in every reachable state monthlyFees is feePerTransaction times the
\* current monthlyVolume, at the bounds 1 and 2000 too, unrounded.
C10_MonthlyFees ==
  mounted => monthlyFees = feePerTransaction * monthlyVolume

\* a fee of 3.20 that is not a whole number of cents times 2000, after the
\* volume went to its maximum and the scenario was switched
C10_Witness ==
  /\ mounted
  /\ monthlyVolume = MaxVolume
  /\ amount = MinAmount + 1
  /\ fm.type = "percent_plus_fixed" /\ fm.percent = {19} /\ fm.fixed = {300}
  /\ feePerTransaction = 414
  /\ monthlyFees = 828000

\* C11: whenever settlementTimingLabel is present (a non-empty string; an
\* empty one counts as absent, as for internationalDays in C2) the settlement
\* time shown is exactly that label, whatever internationalDays,
\* domesticDays, transactionType and the international flag are.
C11_LabelWins ==
  (mounted /\ st.settlementTimingLabel \notin {None, {Str("")}})
  => settlementTime \in st.settlementTimingLabel

\* the label is shown for an international scenario that has both day counts
C11_Witness ==
  /\ mounted
  /\ amount # InitAmount
  /\ isInternational
  /\ scenario.transactionType = {"International"}
  /\ st.internationalDays = {Str("3-5 business days")}
  /\ st.domesticDays = Num(1)
  /\ st.settlementTimingLabel = {Str("Typically T+1")}
  /\ settlementTime = Str("Typically T+1")

\* C12: without a settlementTimingLabel the settlement time shown is
\* internationalDays when the transaction is international and
\* internationalDays is present, and domesticDays in every other case,
\* returned unchanged (a number stays a number, a text stays a text).
C12_DaysSelection ==
  (mounted /\ st.settlementTimingLabel \in {None, {Str("")}})
  => LET hasIntlDays == st.internationalDays \notin {None, {Num(0)}, {Str("")}}
     IN /\ (isInternational /\ hasIntlDays)
             => settlementTime \in st.internationalDays
        /\ ~(isInternational /\ hasIntlDays)
             => settlementTime = st.domesticDays
        /\ settlementTime.kind = "number" => settlementTime.s = ""
        /\ settlementTime.kind = "string" => settlementTime.n = 0

\* an international transaction without internationalDays shows the number
\* of domestic days
C12_Witness ==
  /\ mounted
  /\ monthlyVolume # InitVolume
  /\ isInternational
  /\ scenario.transactionType = {"International"}
  /\ st.settlementTimingLabel = None
  /\ st.internationalDays = None
  /\ st.domesticDays = Num(1)
  /\ settlementTime = Num(1)

\* C13: after any sequence of scenario switches and slider changes the flag
\* behind the badge, the fee and the settlement time is the flag of the
\* scenario currently passed in; the flag of an earlier scenario is not used.
C13_FlagIsCurrent ==
  mounted =>
    LET flag == \/ st.internationalDays \notin {None, {Num(0)}, {Str("")}}
                \/ scenario.transactionType = {"International"}
                \/ fm.type = "flat_with_international"
    IN /\ isInternational = flag
       /\ feePerTransaction = ComputeFee(amount, fm, flag)
       /\ settlementTime = ComputeSettlementTime(st, flag)

\* the simulator stayed mounted while an international scenario was replaced
\* by a domestic one with a wire model: the multiplier is no longer applied
C13_Witness ==
  /\ mounted
  /\ amount # InitAmount
  /\ prevIsInternational
  /\ ~isInternational
  /\ fm.type = "wire" /\ fm.flat = {30000}
  /\ fm.internationalMultiplier = {5}
  /\ feePerTransaction = 30000
  /\ settlementTime = Num(1)

\* C14: the memoised simulator agrees with full recomputation: in every
\* reachable state each memo cell holds the dependencies of the current
\* inputs, and the three outputs are the values computed from scratch from
\* the current amount, volume and scenario.
C14_MemoEqualsRecompute ==
  mounted =>
    LET intl == IsInternational(scenario)
        fee == ComputeFee(amount, fm, intl)
    IN /\ feeMemo = [deps |-> FeeDeps(amount, fm, intl), value |-> fee]
       /\ monthlyMemo = [deps |-> MonthlyDeps(fee, monthlyVolume),
                         value |-> fee * monthlyVolume]
       /\ settlementMemo = [deps |-> SettlementDeps(intl, st),
                            value |-> ComputeSettlementTime(st, intl)]

\* after a scenario switch and both sliders moved: 100 at 2.9% + 0.30 capped
\* at 1.80, 2000 times a month
C14_Witness ==
  /\ mounted
  /\ prevIsInternational # isInternational
  /\ amount = 100
  /\ monthlyVolume = MaxVolume
  /\ fm.type = "percent_plus_fixed_with_cap"
  /\ fm.percent = {29} /\ fm.fixed = {300} /\ fm.cap = {1800}
  /\ feePerTransaction = 1800
  /\ monthlyFees = 3600000

\* C15: the outputs depend on the current amount, volume, economics and
\* transactionType only: whatever was processed before, they are the outputs
\* of a second run that mounts the simulator on the same scenario and then
\* moves the amount slider and the volume slider to the same values.
C15_Deterministic ==
  mounted =>
    LET intl == IsInternational(scenario)
        f0 == [deps |-> FeeDeps(InitAmount, fm, intl),
               value |-> ComputeFee(InitAmount, fm, intl)]
        m0 == [deps |-> MonthlyDeps(f0.value, InitVolume),
               value |-> f0.value * InitVolume]
        s0 == [deps |-> SettlementDeps(intl, st),
               value |-> ComputeSettlementTime(st, intl)]
        f1 == UseMemo(f0, FeeDeps(amount, fm, intl), ComputeFee(amount, fm, intl))
        m1 == UseMemo(m0, MonthlyDeps(f1.value, InitVolume),
                      f1.value * InitVolume)
        m2 == UseMemo(m1, MonthlyDeps(f1.value, monthlyVolume),
                      f1.value * monthlyVolume)
    IN /\ feePerTransaction = f1.value
       /\ monthlyFees = m2.value
       /\ settlementTime = s0.value

\* a state whose history differs from the second run: the scenario was
\* switched from a domestic to an international one after the sliders moved
C15_Witness ==
  /\ mounted
  /\ ~prevIsInternational
  /\ isInternational
  /\ amount = MaxAmount
  /\ monthlyVolume = MinVolume
  /\ st.settlementTimingLabel = None
  /\ st.internationalDays = {Num(3)}
  /\ settlementTime = Num(3)

\* C17: in every reachable state of a simulator amount is within [5, 5000]
\* and monthlyVolume is an integer within [1, 2000]; the first render has
\* amount 50 and volume 200.
C17_SliderRanges ==
  mounted =>
    /\ amount \in MinAmount..MaxAmount
    /\ monthlyVolume \in MinVolume..MaxVolume
    /\ MinAmount = 5 /\ MaxAmount = 5000
    /\ MinVolume = 1 /\ MaxVolume = 2000

\* both sliders at a bound, after a scenario switch
C17_Witness ==
  /\ mounted
  /\ prevIsInternational # isInternational
  /\ amount = MinAmount
  /\ monthlyVolume = MaxVolume

\* C18: a percent_plus_fixed model has fee max(0, amount*percent + fixed)
\* for every amount, percent being a fraction (0.019 is 1.9%), whatever the
\* international flag is.
C18_PercentPlusFixed ==
  (mounted /\ fm.type = "percent_plus_fixed")
  => LET percent == IF fm.percent = None THEN 0 ELSE Get(fm.percent)
         fixed == IF fm.fixed = None THEN 0 ELSE Get(fm.fixed)
         fee == amount * percent + fixed
     IN feePerTransaction = (IF fee > 0 THEN fee ELSE 0)

\* 1.9% of 100 plus 0.30 is 2.20, for an international transaction
C18_Witness ==
  /\ mounted
  /\ isInternational
  /\ fm.type = "percent_plus_fixed"
  /\ fm.percent = {19} /\ fm.fixed = {300}
  /\ amount = 100
  /\ feePerTransaction = 2200

\* C16: a scenario without economics never gets a simulator: in every
\* reachable state of the Explorer, single mode and compare mode, every
\* simulator element has a scenario with economics, so the body of each
\* one runs its derivation and none takes the early return.
C16_NoSimulatorWithoutEconomics ==
  /\ \A e \in shown : e.scenario.economics # None
  /\ Derived(shown) = shown
  /\ (~compareMode /\ selectedScenario.economics = None) => shown = {}
  /\ (compareMode /\ (scenarioA.economics = None \/ scenarioB.economics = None))
       => shown = {}

\* compare mode after a dropdown put a scenario without economics in slot B
\* next to one with economics in slot A: no simulator at all
C16_Witness ==
  /\ compareMode
  /\ lastOp.op = "selectB"
  /\ scenarioA.economics # None
  /\ scenarioB.economics = None
  /\ shown = {}

\* C19 (as claimed): in compare mode scenario A and scenario B are two different
\* scenarios, for the state built from any URL and after any sequence of
\* entering compare mode, dropdown selections and card clicks.
C19_SlotsDiffer == compareMode => scenarioA.id # scenarioB.id

\* C20 (as claimed): selecting in dropdown A the scenario held by slot B swaps the two
\* slots, and symmetrically for dropdown B and slot A; selecting any other
\* scenario changes only the dropdown's own slot.
C20_DropdownSwap ==
  [][/\ lastOp'.op = "selectA"
        => /\ IF lastOp'.arg = scenarioB.id
              THEN scenarioA' = scenarioB /\ scenarioB' = scenarioA
              ELSE scenarioA'.id = lastOp'.arg /\ scenarioB' = scenarioB
           /\ UNCHANGED <<compareMode, selectedScenario>>
     /\ lastOp'.op = "selectB"
        => /\ IF lastOp'.arg = scenarioA.id
              THEN scenarioB' = scenarioA /\ scenarioA' = scenarioB
              ELSE scenarioB'.id = lastOp'.arg /\ scenarioA' = scenarioA
           /\ UNCHANGED <<compareMode, selectedScenario>>]_vars

\* C21: in compare mode a click on the card of the scenario in slot A or in
\* slot B exchanges the two slots, and a second click on the same card
\* restores the pair the first click found.
C21_CardSwap ==
  [][(compareMode /\ lastOp'.op = "card"
        /\ lastOp'.arg \in {scenarioA.id, scenarioB.id})
     => /\ scenarioA' = scenarioB
        /\ scenarioB' = scenarioA
        /\ (lastOp.op = "card" /\ lastOp.arg = lastOp'.arg
              /\ lastOp.arg \in {lastOp.prevA, lastOp.prevB})
           => /\ scenarioA'.id = lastOp.prevA
              /\ scenarioB'.id = lastOp.prevB]_vars

\* two different slots were exchanged by a click on the card of slot A
C21_Witness ==
  /\ compareMode
  /\ lastOp.op = "card"
  /\ lastOp.arg = lastOp.prevA
  /\ lastOp.prevA # lastOp.prevB
  /\ scenarioA.id = lastOp.prevB
  /\ scenarioB.id = lastOp.prevA

\* C22: in compare mode a click on the card of a scenario in neither slot
\* puts it in slot B and keeps slot A when the slots differ, puts it in slot A
\* and keeps slot B when the slots hold the same scenario; selectedScenario
\* and compareMode keep their values.
C22_CardReplace ==
  [][(compareMode /\ lastOp'.op = "card"
        /\ lastOp'.arg \notin {scenarioA.id, scenarioB.id})
     => /\ IF scenarioA.id # scenarioB.id
           THEN scenarioB'.id = lastOp'.arg /\ scenarioA' = scenarioA
           ELSE scenarioA'.id = lastOp'.arg /\ scenarioB' = scenarioB
        /\ UNCHANGED <<compareMode, selectedScenario>>]_vars

\* a third scenario was put in slot B next to a different scenario in slot A
C22_Witness ==
  /\ compareMode
  /\ lastOp.op = "card"
  /\ lastOp.arg \notin {lastOp.prevA, lastOp.prevB}
  /\ lastOp.prevA # lastOp.prevB
  /\ scenarioA.id = lastOp.prevA
  /\ scenarioB.id = lastOp.arg

\* C23 (as claimed): as long as the user has done nothing since the page was
\* loaded, router.replace has not been called.
C23_NoReplaceOnLoad == lastOp.op = "load" => lastReplace = None

\* the query that encodes the current state: compare=1, a, b in compare mode,
\* s in single mode
EncodedState ==
  IF compareMode
  THEN [compare |-> {"1"}, s |-> None,
        a |-> {scenarioA.id}, b |-> {scenarioB.id}]
  ELSE [compare |-> None, s |-> {selectedScenario.id},
        a |-> None, b |-> None]

\* C24: once initialised, a step that changes compareMode, selectedScenario,
\* scenarioA or scenarioB calls router.replace with the query that encodes
\* the new state, and after every step the URL is that query.
C24_URLFollowsState ==
  [][isInitialized'
     => /\ url' = EncodedState'
        /\ (isInitialized
              /\ <<compareMode, selectedScenario, scenarioA, scenarioB>>' #
                 <<compareMode, selectedScenario, scenarioA, scenarioB>>)
           => lastReplace' = Some(EncodedState')]_vars

\* entering compare mode was followed by a replace with compare=1, a and b
C24_Witness ==
  /\ isInitialized
  /\ lastOp.op = "compare"
  /\ compareMode
  /\ lastReplace = Some(url)
  /\ url.compare = {"1"}
  /\ url.s = None

\* C25 (as claimed): the initial state built from the URL written for the
\* current state has the same compareMode and, in compare mode, the same
\* scenarios in slots A and B, in single mode the same selectedScenario.
C25_RoundTrip ==
  isInitialized
  => LET i == initialState(scenarios, url) IN
     /\ i.compareMode = compareMode
     /\ compareMode => i.a = scenarioA /\ i.b = scenarioB
     /\ ~compareMode => i.selected = selectedScenario

\* an id parameter that names a scenario of the list
Known(id) == findScenarioById(scenarios, id) # None

\* the scenario an id parameter names, else the given one
Named(id, fallback) ==
  IF Known(id) THEN Get(findScenarioById(scenarios, id)) ELSE fallback

\* C26 (as claimed): the state of the first render holds scenarios of the
\* list only; compare mode is on exactly when compare is "1"; a missing or
\* unknown s or a gives the first scenario, a missing or unknown b the second.
C26_InitialState ==
  ~isInitialized
  => /\ {selectedScenario, scenarioA, scenarioB} \subseteq Listed
     /\ compareMode = (url.compare = {"1"})
     /\ ~compareMode => selectedScenario = Named(url.s, scenarios[1])
     /\ compareMode
        => /\ scenarioA = Named(url.a, scenarios[1])
           /\ ~Known(url.b) => scenarioB = scenarios[2]

\* C26 (amended): as above, but slot B gets the scenario b names, else the
\* second scenario, and when that is the scenario of slot A it gets the
\* first scenario of the list other than the one of slot A.
C26_InitialStateDistinct ==
  ~isInitialized
  => /\ {selectedScenario, scenarioA, scenarioB} \subseteq Listed
     /\ compareMode = (url.compare = {"1"})
     /\ ~compareMode => selectedScenario = Named(url.s, scenarios[1])
     /\ compareMode
        => /\ scenarioA = Named(url.a, scenarios[1])
           /\ scenarioB =
                IF Named(url.b, scenarios[2]) # scenarioA
                THEN Named(url.b, scenarios[2])
                ELSE Get(FindOtherThan(scenarios, scenarioA.id))

\* compare=1 with a the second scenario and no b: slot B gets the first one
C26_Witness ==
  /\ ~isInitialized
  /\ url.compare = {"1"}
  /\ url.a = {scenarios[2].id}
  /\ url.b = None
  /\ scenarioA = scenarios[2]
  /\ scenarioB = scenarios[1]

\* C27: no user operation turns compare mode off, and a step that changes
\* compareMode is a click on the Compare Mode button.
C27_CompareModeOneWay ==
  [][/\ compareMode => compareMode'
     /\ compareMode' # compareMode => lastOp'.op = "compare"]_vars

\* a dropdown selection made in compare mode left compare mode on
C27_Witness ==
  /\ compareMode
  /\ lastOp.op = "selectB"
  /\ scenarioB.id = lastOp.arg

====
